---- MODULE Spec2Model ----
(***************************************************************************)
(* Model of the binary STL importer of ConvertObjTo3mf                     *)
(* (src/src/stl_binary.cpp): the format sniffer StlBinary::is_stl_binary   *)
(* and the decoder StlBinary::load / to_model / import.                    *)
(*                                                                         *)
(* Machine integers keep their width.  A size_t (64 bit) or uint32_t value *)
(* is a tuple of four 16-bit limbs, most significant first, so that the    *)
(* wrap-around of  file_size - 84,  50 * num_triangles  and  length() - 4  *)
(* is computed as the build computes it.  A float is its 32-bit pattern    *)
(* (the code copies the bytes of the file into the float unchanged).       *)
(* Probabilities are exact multiples of 10^-6.                             *)
(*                                                                         *)
(* The sniffer is a static function and shares no state with the decoder:  *)
(* SpecSniffer and SpecDecoder are the two components on their own, Spec   *)
(* is both together.                                                       *)
(*                                                                         *)
(* Every record constructor lists its fields in the order in which the     *)
(* field names first occur in this module.  That is the order TLC sorts    *)
(* them into, so no record is reordered in place while two workers hold it.*)
(***************************************************************************)
EXTENDS Integers, Sequences, FiniteSets

VARIABLES triangles, loads, last

vars == <<triangles, loads, last>>

(***************************************************************************)
(* Bounds of the model.                                                    *)
(***************************************************************************)
\* Largest number of complete triangle records in a modelled file.
MaxTri == 2
\* Largest number of load calls on one decoder instance.
MaxLoads == 2

(***************************************************************************)
(* Fixed-width unsigned arithmetic.                                        *)
(***************************************************************************)
Base == 256 * 256

\* A small natural number (< 2^31) as a 64-bit value.
FromNat(n) == <<0, 0, n \div Base, n % Base>>

\* The value of a 64-bit quantity whose upper limbs are zero.
ToNat(a) == a[3] * Base + a[4]

\* Does the value fit the naturals the model counts with?
IsSmall(a) == a[1] = 0 /\ a[2] = 0 /\ a[3] < 128 * 256

\* size_t(-1): what tellg() of a failed stream and std::string::npos convert to.
SIZE_MAX == <<Base - 1, Base - 1, Base - 1, Base - 1>>

\* a - b modulo 2^64.
Sub64(a, b) ==
    LET d4 == a[4] - b[4]
        b4 == IF d4 < 0 THEN 1 ELSE 0
        d3 == a[3] - b[3] - b4
        b3 == IF d3 < 0 THEN 1 ELSE 0
        d2 == a[2] - b[2] - b3
        b2 == IF d2 < 0 THEN 1 ELSE 0
        d1 == a[1] - b[1] - b2
    IN  <<(d1 + Base) % Base, (d2 + Base) % Base, (d3 + Base) % Base, (d4 + Base) % Base>>

\* a / d (truncating) for a 64-bit a and a small divisor d.
DivSmall(a, d) ==
    LET q1 == a[1] \div d
        r1 == a[1] % d
        q2 == (r1 * Base + a[2]) \div d
        r2 == (r1 * Base + a[2]) % d
        q3 == (r2 * Base + a[3]) \div d
        r3 == (r2 * Base + a[3]) % d
        q4 == (r3 * Base + a[4]) \div d
    IN  <<q1, q2, q3, q4>>

\* a < b, unsigned.
Less(a, b) ==
    \E i \in 1..4 : a[i] < b[i] /\ \A j \in 1..(i - 1) : a[j] = b[j]

\* Conversion to uint32_t: the value modulo 2^32.
Trunc32(a) == <<0, 0, a[3], a[4]>>

\* c * a in unsigned 32-bit arithmetic, c a small constant.
Mul32(c, a) ==
    LET lo == c * a[4]
        hi == c * a[3] + (lo \div Base)
    IN  <<0, 0, hi % Base, lo % Base>>

\* c + a in unsigned 32-bit arithmetic, c a small constant.
Add32(c, a) ==
    LET lo == c + a[4]
        hi == a[3] + (lo \div Base)
    IN  <<0, 0, hi % Base, lo % Base>>

\* The uint32_t whose object representation is the four bytes b (little-endian host).
U32FromBytes(b) == <<0, 0, b[3] + 256 * b[4], b[1] + 256 * b[2]>>

\* The float whose object representation is the four bytes b, as its bit pattern.
FloatFromBytes(b) == b[1] + 256 * b[2] + Base * b[3] + 256 * Base * b[4]

\* The four bytes of the 32-bit pattern v, least significant first.
BytesOf(v) == <<v % 256, (v \div 256) % 256, (v \div Base) % 256, v \div (256 * Base)>>

(***************************************************************************)
(* The files and paths the operations are applied to.                      *)
(***************************************************************************)
\* A path that cannot be opened for reading.
Unreadable == [size |-> 0, count |-> <<0, 0, 0, 0>>, seed |-> 0, readable |-> FALSE]

\* The float stored in slot s (0..2 normal, 3..11 vertices) of record k.
FloatAt(seed, k, s) == 1 + 1000 * seed + 12 * k + s

\* The count 85899346 = 0x051EB852, as its four bytes: 50 * 85899346 = 2^32 + 4.
OverflowCount == <<82, 184, 30, 5>>

\* The largest 32-bit count.
AllOnes == <<255, 255, 255, 255>>

Seeds == {0, 1}

MkFile(size, count, seed) ==
    [size |-> size, count |-> count, seed |-> seed, readable |-> TRUE]

\* Files of exactly 84 + 50 * N bytes declaring N triangles.
WellFormed ==
    {MkFile(84 + 50 * n, BytesOf(n), s) : n \in 0..MaxTri, s \in Seeds}

\* Files whose declared count differs from what their size holds.
Malformed ==
    {MkFile(84 + 50 * n + x, c, 0) :
        n \in 0..MaxTri, x \in {4, 49},
        c \in {BytesOf(1), OverflowCount, AllOnes}}

\* Files too short to hold the header and the count.
Short == {MkFile(sz, BytesOf(1), 0) : sz \in {0, 40, 80, 83}}

\* The files the sniffer is asked about.
Files == WellFormed \cup Malformed \cup Short \cup {Unreadable}

\* The files the decoder is given: well-formed ones, ones declaring more than
\* they hold (with a truncated last record), one declaring less, short ones and
\* an unreadable one.
DecoderFiles ==
    {MkFile(84 + 50 * n, BytesOf(n), 0) : n \in 0..MaxTri}
    \cup {MkFile(84 + 50, BytesOf(1), 1)}
    \cup {MkFile(84 + 50 * n + 49, AllOnes, 0) : n \in 0..MaxTri}
    \cup {MkFile(84 + 50 * MaxTri + 4, BytesOf(1), 0)}
    \cup {MkFile(sz, BytesOf(1), 0) : sz \in {0, 83}}
    \cup {Unreadable}

\* Byte i (from 0) of file f.
ByteAt(f, i) ==
    IF i < 80 THEN 32
    ELSE IF i < 84 THEN f.count[i - 80 + 1]
    ELSE LET k == (i - 84) \div 50
             o == (i - 84) % 50
         IN  IF o >= 48 THEN 0
             ELSE BytesOf(FloatAt(f.seed, k, o \div 4))[(o % 4) + 1]

Paths ==
    { <<"a", ".", "s", "t", "l">>,
      <<"a", ".", "o", "b", "j">>,
      <<"a", ".", "t", "x", "t">>,
      <<"a", ".", "S", "T", "L">>,
      <<"a", "b", "c">>,
      <<"s", "t", "l">>,
      <<".", "s", "t", "l">>,
      <<"m", ".", "s", "t", "l", "x">> }

\* Values an uninitialised uint32_t can hold.
GarbageCounts == {BytesOf(0), BytesOf(1), AllOnes}

\* Values an uninitialised float can hold (bit patterns).
GarbageFloats == {0, 777}

(***************************************************************************)
(* std::ifstream.                                                          *)
(***************************************************************************)
\* std::ifstream(filename, in | binary): failbit is set when the open fails.
Open(f) == [file |-> f, fail |-> ~f.readable, eof |-> FALSE, pos |-> 0]

\* seekg(p) / seekg(p, beg): clears eofbit, does nothing more on a failed stream.
Seekg(s, p) ==
    IF s.fail THEN [s EXCEPT !.eof = FALSE]
    ELSE [s EXCEPT !.eof = FALSE, !.pos = p]

\* seekg(0, end).
SeekgEnd(s) == Seekg(s, s.file.size)

\* size_t(tellg()): -1 on a failed stream, else the position.
Tellg(s) == IF s.fail THEN SIZE_MAX ELSE FromNat(s.pos)

\* read(buf, 4): the bytes available replace the first bytes of buf, the rest of
\* buf keeps what it held; a short read sets eofbit and failbit.
Read4(s, buf) ==
    IF s.fail \/ s.eof
    THEN [s |-> [s EXCEPT !.fail = TRUE], buf |-> buf, got |-> 0]
    ELSE LET left == IF s.file.size > s.pos THEN s.file.size - s.pos ELSE 0
             got  == IF left < 4 THEN left ELSE 4
         IN  [s   |-> [s EXCEPT !.pos = s.pos + got,
                                !.eof = got < 4,
                                !.fail = got < 4],
              buf |-> [j \in 1..4 |-> IF j <= got THEN ByteAt(s.file, s.pos + j - 1)
                                      ELSE buf[j]],
              got |-> got]

(***************************************************************************)
(* StlBinary::is_stl_binary.                                               *)
(***************************************************************************)
\* Probabilities are counted in millionths.
One == 1000 * 1000

\* probability_incorrect_extension = 0.01
probability_incorrect_extension == One \div 100

\* probability_incorrect_size = 0.0001
probability_incorrect_size == One \div 10000

\* a * b for two probabilities.
PMul(a, b) == (a * b) \div One

\* std::string::find_last_of(chars): the last index (from 0) holding one of
\* chars, or npos.
FindLastOf(path, chars) ==
    LET hits == {i \in 1..Len(path) : path[i] \in chars}
    IN  IF hits = {} THEN SIZE_MAX
        ELSE FromNat((CHOOSE i \in hits : \A j \in hits : j <= i) - 1)

\* filename.find_last_of(".stl") == filename.length() - 4
ExtensionMatches(path) ==
    FindLastOf(path, {".", "s", "t", "l"}) = Sub64(FromNat(Len(path)), FromNat(4))

\* file_size == 84 + 50 * num_triangles: the right side is unsigned 32-bit
\* arithmetic, converted to size_t for the comparison.
SizeMatches(file_size, num_triangles) ==
    file_size = Add32(84, Mul32(50, num_triangles))

\* AdjustBySize with the sign of the correction slipped.
AdjustBySizeSignSlip(probability, correct_file_size) ==
    IF correct_file_size
    THEN One + PMul(One - probability, probability_incorrect_size)
    ELSE PMul(probability, probability_incorrect_size)

\* The adjustment of the probability by the file size.
AdjustBySize(probability, correct_file_size) ==
    IF correct_file_size
    THEN One - PMul(One - probability, probability_incorrect_size)
    ELSE PMul(probability, probability_incorrect_size)

\* The whole function; garbage is what the uninitialised num_triangles holds.
is_stl_binary(path, f, garbage) ==
    LET base == IF ExtensionMatches(path)
                THEN One - probability_incorrect_extension
                ELSE probability_incorrect_extension
        s1 == SeekgEnd(Open(f))
        file_size == Tellg(s1)
        s2 == Seekg(s1, 0)
        atLeastHeader == ~Less(file_size, FromNat(84))
        s3 == Seekg(s2, 80)
        r == Read4(s3, garbage)
        num_triangles == U32FromBytes(r.buf)
        correct_file_size == atLeastHeader /\ SizeMatches(file_size, num_triangles)
    IN  [probability |-> AdjustBySize(base, correct_file_size),
         correct_file_size |-> correct_file_size,
         base |-> base,
         raised |-> "none"]

(***************************************************************************)
(* StlBinary::load, to_model, import.                                      *)
(***************************************************************************)
\* ClampCount rounding the number of records up instead of down.
ClampCountRoundUp(file_size, num_triangles) ==
    LET most == DivSmall(Sub64(file_size, FromNat(84 - 49)), 50)
    IN  IF Less(most, num_triangles) THEN Trunc32(most) ELSE num_triangles

\* The clamp of the declared count to what the file size holds:
\* if((file_size - 84) / 50 < num_triangles) num_triangles = (file_size - 84) / 50
ClampCount(file_size, num_triangles) ==
    LET most == DivSmall(Sub64(file_size, FromNat(84)), 50)
    IN  IF Less(most, num_triangles) THEN Trunc32(most) ELSE num_triangles

\* triangles.reserve(n) throws std::bad_alloc when the memory cannot hold n
\* triangles; the modelled machine holds fewer than 2^31 of them.
ReserveThrows(n) == ~IsSmall(n)

\* One file_handle.read((char*)&v, sizeof(float)) into an uninitialised float
\* holding g: r is what read returns, the float is appended to vals.
AfterReadFloat(r, vals, short) ==
    [s |-> r.s, vals |-> Append(vals, FloatFromBytes(r.buf)), short |-> short \/ r.got < 4]

\* The nine reads v1_x .. v3_z, in the order of the source; st is the stream,
\* the floats read so far and whether a read came short.
RECURSIVE ReadFloats(_, _, _)
ReadFloats(st, k, g) ==
    IF k = 0 THEN st
    ELSE ReadFloats(AfterReadFloat(Read4(st.s, BytesOf(g)), st.vals, st.short), k - 1, g)

\* Point3(x, y, z)
Point3(x, y, z) == <<x, y, z>>

\* MakeTriangle with the second and third vertex exchanged.
MakeTriangleSwapped(v) ==
    <<Point3(v[1], v[2], v[3]), Point3(v[7], v[8], v[9]), Point3(v[4], v[5], v[6])>>

\* The std::array<Point3, 3> built from the nine floats read.
MakeTriangle(v) ==
    <<Point3(v[1], v[2], v[3]), Point3(v[4], v[5], v[6]), Point3(v[7], v[8], v[9])>>

\* The offset the loop seeks to for triangle_index: past the normal vector.
VertexOffset(triangle_index) == 84 + triangle_index * 50 + 12

\* LoadOne assigning the new triangle to the list instead of appending it.
LoadOneOverwrite(st, tris) ==
    [triangles |-> <<MakeTriangle(st.vals)>>, s |-> st.s, short |-> st.short]

\* The body of the loop for one triangle_index, after the seek and the nine
\* reads (st): the triangle is pushed back on tris.
LoadOne(st, tris) ==
    [triangles |-> Append(tris, MakeTriangle(st.vals)), s |-> st.s, short |-> st.short]

\* The loop over triangle_index; st holds the stream, whether a read came short
\* and the member triangles.
RECURSIVE LoadLoop(_, _, _, _)
LoadLoop(st, triangle_index, num_triangles, g) ==
    IF triangle_index >= num_triangles THEN st
    ELSE LoadLoop(
            LoadOne(ReadFloats([s |-> Seekg(st.s, VertexOffset(triangle_index)),
                                vals |-> <<>>, short |-> st.short], 9, g),
                    st.triangles),
            triangle_index + 1, num_triangles, g)

\* What load leaves behind: the triangles, the number of iterations of the
\* loop, whether a read came short, and the exception raised if any.
LoadResult(st, n, raised) ==
    [triangles |-> st.triangles, n |-> n, raised |-> raised, short |-> st.short]

\* The part of load after the count is clamped: reserve, then the loop.
LoadBody(s, num_triangles, tris, g) ==
    IF ReserveThrows(num_triangles)
    THEN LoadResult([triangles |-> tris, s |-> s, short |-> FALSE], 0, "bad_alloc")
    ELSE LoadResult(LoadLoop([triangles |-> tris, s |-> s, short |-> FALSE],
                             0, ToNat(num_triangles), g),
                    ToNat(num_triangles), "none")

\* The part of load after the size is taken: seek to the first record, clamp.
LoadSized(s, declared, tris, g) ==
    LoadBody(Seekg(s, 84), ClampCount(Tellg(s), declared), tris, g)

\* The part of load after the count is read (r is what read returned): seek to
\* the end and take the size.
LoadCounted(r, tris, g) ==
    LoadSized(SeekgEnd(r.s), U32FromBytes(r.buf), tris, g)

\* The whole of load on a decoder holding tris; gcount and gfloat are what the
\* uninitialised num_triangles and floats hold.
load(tris, f, gcount, gfloat) ==
    LoadCounted(Read4(Seekg(Open(f), 80), gcount), tris, gfloat)

\* to_model: one mesh, one face of three vertices per triangle.
to_model(tris) ==
    [meshes |-> << [faces |-> [k \in 1..Len(tris) |->
                       [vertices |-> <<tris[k][1], tris[k][2], tris[k][3]>>]]] >>]

\* StlBinary stl: a decoder holding no triangles.
NewStlBinary == <<>>

\* import: load into a decoder of its own, then to_model; an exception of load
\* propagates and no Model is returned.
import(f, gcount, gfloat) ==
    LET r == load(NewStlBinary, f, gcount, gfloat)
    IN  IF r.raised # "none"
        THEN [n |-> 0, raised |-> r.raised, model |-> [meshes |-> <<>>]]
        ELSE [n |-> r.n, raised |-> "none", model |-> to_model(r.triangles)]

(***************************************************************************)
(* The state machine.  triangles is the triangle list of the decoder       *)
(* instance at hand, loads the effective count of each load call made on   *)
(* it, last the most recent operation with its inputs and its result.      *)
(***************************************************************************)
Init ==
    /\ triangles = NewStlBinary
    /\ loads = <<>>
    /\ last = [op |-> "construct"]

\* The driver asks the sniffer about a path.
Estimate ==
    \E path \in Paths, f \in Files, garbage \in GarbageCounts :
        \E r \in {is_stl_binary(path, f, garbage)} :
            /\ last' = [file |-> f, path |-> path, op |-> "estimate", result |-> r]
            /\ UNCHANGED <<triangles, loads>>

\* A decoder is constructed.
Construct ==
    /\ triangles' = NewStlBinary
    /\ loads' = <<>>
    /\ last' = [op |-> "construct"]

\* load is called on the decoder at hand.
DoLoad ==
    /\ Len(loads) < MaxLoads
    /\ \E f \in DecoderFiles, gcount \in GarbageCounts, gfloat \in GarbageFloats :
        \E r \in {load(triangles, f, gcount, gfloat)} :
            /\ triangles' = r.triangles
            /\ loads' = IF r.raised = "none" THEN Append(loads, r.n) ELSE loads
            /\ last' = [n |-> r.n, file |-> f, raised |-> r.raised, short |-> r.short,
                        op |-> "load"]

\* to_model is called on the decoder at hand.
DoToModel ==
    /\ last' = [model |-> to_model(triangles), op |-> "to_model"]
    /\ UNCHANGED <<triangles, loads>>

\* import is called; the decoder at hand is not involved.
DoImport ==
    \E f \in DecoderFiles, gcount \in GarbageCounts, gfloat \in GarbageFloats :
        \E r \in {import(f, gcount, gfloat)} :
            /\ last' = [n |-> r.n, file |-> f, raised |-> r.raised, model |-> r.model,
                        op |-> "import"]
            /\ UNCHANGED <<triangles, loads>>

NextSniffer == Estimate

NextDecoder == Construct \/ DoLoad \/ DoToModel \/ DoImport

Next == NextSniffer \/ NextDecoder

SpecSniffer == Init /\ [][NextSniffer]_vars

SpecDecoder == Init /\ [][NextDecoder]_vars

Spec == Init /\ [][Next]_vars

(***************************************************************************)
(* What the claims speak of, stated on the file and the path themselves.   *)
(***************************************************************************)
\* The path's last four characters are ".stl".
EndsWithStl(path) ==
    /\ Len(path) >= 4
    /\ SubSeq(path, Len(path) - 3, Len(path)) = <<".", "s", "t", "l">>

\* N_max: floor((file_size - 84) / 50), 0 for a file shorter than 84 bytes.
NMax(f) == IF f.size >= 84 THEN (f.size - 84) \div 50 ELSE 0

\* The file's size is 84 + 50 * N as integers, N the count at offset 80.
ExactSize(f) ==
    /\ f.size >= 84
    /\ (f.size - 84) % 50 = 0
    /\ f.count = BytesOf((f.size - 84) \div 50)

\* min(N_declared, m) for a small m, N_declared the count at offset 80.
MinDeclared(f, m) ==
    IF f.count[4] >= 128 THEN m
    ELSE LET d == f.count[1] + 256 * f.count[2] + Base * f.count[3]
                  + 256 * Base * f.count[4]
         IN  IF d < m THEN d ELSE m

\* Vertex v (1..3) of record k (from 0) of file f.
RecordVertex(f, k, v) ==
    <<FloatAt(f.seed, k, 3 * v), FloatAt(f.seed, k, 3 * v + 1), FloatAt(f.seed, k, 3 * v + 2)>>

\* The triangles of the first n records of file f.
RecordTriangles(f, n) ==
    [k \in 1..n |-> <<RecordVertex(f, k - 1, 1), RecordVertex(f, k - 1, 2),
                      RecordVertex(f, k - 1, 3)>>]

\* The faces of a model's only mesh.
Faces(model) == model.meshes[1].faces

RECURSIVE Sum(_)
Sum(s) == IF s = <<>> THEN 0 ELSE s[1] + Sum(Tail(s))

IsLoad == last.op = "load"
IsImport == last.op = "import"
IsEstimate == last.op = "estimate"

(***************************************************************************)
(* C1: after load the number of triangles parsed never exceeds N_max, for  *)
(* every file size and every count, read or not; a file shorter than 84    *)
(* bytes gives zero triangles and a Model of one mesh with zero faces.     *)
(* The code does not do this: for a short file the read of the count and   *)
(* tellg() fail, (file_size - 84) / 50 is huge and the uninitialised count *)
(* is used unclamped.                                                      *)
(***************************************************************************)
C1_CountNeverExceedsNMax ==
    /\ (IsLoad /\ last.file.readable) => last.n <= NMax(last.file)
    /\ (IsImport /\ last.file.readable /\ last.file.size < 84) =>
            /\ last.raised = "none"
            /\ Len(last.model.meshes) = 1
            /\ Faces(last.model) = <<>>

(***************************************************************************)
(* C2: for a readable file of at least 84 bytes load parses exactly        *)
(* min(N_declared, floor((file_size - 84) / 50)) triangles, every record   *)
(* read lies inside the file, no read comes short and nothing is raised.   *)
(***************************************************************************)
C2_ParsesMinOfDeclaredAndFloor ==
    (IsLoad /\ last.file.readable /\ last.file.size >= 84) =>
        /\ last.raised = "none"
        /\ last.n = MinDeclared(last.file, NMax(last.file))
        /\ ~last.short
        /\ \A i \in 0..(last.n - 1) : 84 + 50 * i + 50 <= last.file.size

\* A file declaring 2^32 - 1 triangles was clamped to the MaxTri it holds.
C2_Witness ==
    /\ IsLoad
    /\ last.file.readable
    /\ last.file.count = AllOnes
    /\ last.file.size = 84 + 50 * MaxTri + 49
    /\ last.n = MaxTri

(***************************************************************************)
(* C3: load on a fresh decoder followed by to_model, on a file of exactly  *)
(* 84 + 50 * N bytes declaring N, yields one mesh of N faces; face k has   *)
(* the three vertices of record k in the file's order.                     *)
(***************************************************************************)
C3_LoadThenToModel ==
    [][(/\ IsLoad
        /\ last.raised = "none"
        /\ Len(loads) = 1
        /\ ExactSize(last.file)
        /\ last'.op = "to_model")
       => (/\ Len(last'.model.meshes) = 1
           /\ Len(Faces(last'.model)) = NMax(last.file)
           /\ \A k \in 1..NMax(last.file) :
                Faces(last'.model)[k].vertices = RecordTriangles(last.file, NMax(last.file))[k])]_vars

\* to_model returned the MaxTri faces of the well-formed file of MaxTri records.
C3_Witness ==
    /\ last.op = "to_model"
    /\ loads = <<MaxTri>>
    /\ Len(Faces(last.model)) = MaxTri
    /\ Faces(last.model)[MaxTri].vertices =
            RecordTriangles(MkFile(84 + 50 * MaxTri, BytesOf(MaxTri), 0), MaxTri)[MaxTri]

(***************************************************************************)
(* C4: the base probability is 1 - e_ext exactly when the path ends in     *)
(* ".stl", and e_ext for every other path.  The code does not do this:     *)
(* find_last_of looks for the last of the characters . s t l.              *)
(***************************************************************************)
C4_BaseIffStlSuffix ==
    IsEstimate =>
        last.result.base = (IF EndsWithStl(last.path)
                            THEN One - probability_incorrect_extension
                            ELSE probability_incorrect_extension)

(***************************************************************************)
(* C5: the consistent branch is taken exactly when the file has at least   *)
(* 84 bytes and its size is 84 + 50 * N as integers.  The code computes    *)
(* 84 + 50 * N in unsigned 32-bit arithmetic, which wraps.                 *)
(***************************************************************************)
C5_ConsistentIffExactSize ==
    (IsEstimate /\ last.file.readable) =>
        /\ last.result.correct_file_size = ExactSize(last.file)
        /\ last.result.probability =
                (IF ExactSize(last.file)
                 THEN One - PMul(One - last.result.base, probability_incorrect_size)
                 ELSE PMul(last.result.base, probability_incorrect_size))

(***************************************************************************)
(* C6: the estimate is above 0.5 for a path ending in ".stl" and a file of *)
(* exactly 84 + 50 * N bytes, and below 0.5 when the extension is wrong    *)
(* and the size is inconsistent.  The second half fails by the overflow    *)
(* of C5.                                                                  *)
(***************************************************************************)
C6_AboveAndBelowHalf ==
    (IsEstimate /\ last.file.readable) =>
        /\ (EndsWithStl(last.path) /\ ExactSize(last.file))
                => 2 * last.result.probability > One
        /\ (~EndsWithStl(last.path) /\ ~ExactSize(last.file))
                => 2 * last.result.probability < One

(***************************************************************************)
(* C7: the estimate is never outside [0, 1], whatever the extension and    *)
(* the size consistency.                                                   *)
(***************************************************************************)
C7_ProbabilityInUnitInterval ==
    IsEstimate => (0 <= last.result.probability /\ last.result.probability <= One)

\* The largest estimate: extension matched and size consistent.
C7_Witness ==
    /\ IsEstimate
    /\ ExtensionMatches(last.path)
    /\ last.result.correct_file_size
    /\ last.result.probability = One - 1

(***************************************************************************)
(* C8: when the file cannot be opened load fails with an I/O error that    *)
(* reaches the caller, also through import; no triangle list and no Model  *)
(* is produced.  The code never looks at the state of the stream.          *)
(***************************************************************************)
C8_UnreadableLoadFails ==
    ((IsLoad \/ IsImport) /\ ~last.file.readable) => last.raised = "io_error"

(***************************************************************************)
(* C9: estimate on an unreadable path surfaces an I/O error, and on every  *)
(* readable path returns a probability and does not fail.  The code        *)
(* returns a probability for the unreadable path too.                      *)
(***************************************************************************)
C9_UnreadableEstimateFails ==
    IsEstimate =>
        last.result.raised = (IF last.file.readable THEN "none" ELSE "io_error")

(***************************************************************************)
(* C10: load appends: it never removes or reorders what the decoder holds, *)
(* the list is the concatenation in call order of what each call parsed,   *)
(* to_model yields one mesh with as many faces as the calls parsed in      *)
(* total; import yields only the triangles of its own file.                *)
(***************************************************************************)
C10_LoadAppends ==
    /\ [](/\ Len(triangles) = Sum(loads)
          /\ last.op = "to_model" =>
                (Len(last.model.meshes) = 1 /\ Len(Faces(last.model)) = Sum(loads))
          /\ (IsImport /\ last.raised = "none") =>
                /\ Len(last.model.meshes) = 1
                /\ Len(Faces(last.model)) = last.n
                /\ (last.file.readable /\ last.file.size >= 84) =>
                        \A k \in 1..last.n :
                            Faces(last.model)[k].vertices = RecordTriangles(last.file, last.n)[k])
    /\ [][(last'.op = "load" /\ last'.raised = "none") =>
            /\ loads' = Append(loads, last'.n)
            /\ Len(triangles') = Len(triangles) + last'.n
            /\ SubSeq(triangles', 1, Len(triangles)) = triangles
            /\ (last'.file.readable /\ last'.file.size >= 84) =>
                    SubSeq(triangles', Len(triangles) + 1, Len(triangles')) =
                        RecordTriangles(last'.file, last'.n)]_vars

\* Two loads that each parsed triangles, then to_model with the faces of both.
C10_Witness ==
    /\ last.op = "to_model"
    /\ Len(loads) = 2
    /\ loads[1] > 0
    /\ loads[2] > 0
    /\ Len(Faces(last.model)) = loads[1] + loads[2]
====
